---- MODULE Spec2Model ----
(***************************************************************************)
(* Model of the credential and session core of the visitor management      *)
(* system: SecurityManager (src/src/security/SecurityManager.cpp).          *)
(*                                                                         *)
(* Time is kept in seconds, as QDateTime::addSecs does; the clock advances  *)
(* in steps of TickSecs.  Byte strings and QStrings that are hashed or     *)
(* encoded are sequences of tokens; <<>> is the empty string.              *)
(***************************************************************************)
EXTENDS Integers, Sequences, FiniteSets, TLC

\* ---------------------------------------------------------------- bounds
MaxTicks == 3           \* the clock runs from 0 to MaxTicks * TickSecs
MaxSessions == 2        \* session ids ever issued
MaxFailed == 6          \* cap on the stored failed-attempt counter
NumThreads == 2         \* concurrent callers of authenticate
MaxCalls == 6           \* authenticate calls entered by the threads
MaxAudited == 2         \* authenticate calls entered under SpecAudit

\* ------------------------------------------------------ program constants
SESSION_TIMEOUT_MINUTES == 30
MAX_LOGIN_ATTEMPTS == 5
LOGIN_LOCKOUT_MINUTES == 15
TickSecs == 900

NullTime == 0 - 1       \* QDateTime(): the invalid (null) timestamp
NoSessionId == 0        \* QString(): the empty session id

UserRole == {"SuperAdmin", "Administrator", "Receptionist", "SecurityGuard"}

Usernames == {"alice", "bob", "mallory"}
GoodPassword == <<"Correct-Horse-1!">>
BadPassword == <<"guess">>
Passwords == {GoodPassword, BadPassword}
SessionIds == 1..MaxSessions
Threads == 1..NumThreads
ClientIp == "10.0.0.1"

VARIABLES
    now,             \* QDateTime::currentDateTime(), in seconds
    users,           \* the users table, by username (UNIQUE)
    userCache,       \* SecurityManager::userCache
    activeSessions,  \* SecurityManager::activeSessions
    nextSid,         \* number of session ids generated so far
    dbOk,            \* whether the store executes queries
    encryptionKey,   \* SecurityManager::encryptionKey
    failStreak,      \* history: failed authenticate calls in a row, by username
    ret,             \* the last call that returned a value: operation,
                     \* username and session id of authenticate, result,
                     \* events recorded, hasher used, session evicted
    pc,              \* where each thread is inside authenticate
    loc,             \* the local variables of each thread's call
    sessionMutex,    \* the thread holding sessionMutex, 0 when free
    userMutex,       \* the thread holding userMutex, 0 when free
    res,             \* the result of each thread's last call
    calls,           \* history: authenticate calls entered by the threads
    incCalls,        \* history: incrementFailedAttempts calls completed
    securityEvents,  \* the rows the threads' calls have added to the
                     \* security_events table, counted by event_type
    dialog           \* the LoginDialog: its edits, button, counters, timer

vars == <<now, users, userCache, activeSessions, nextSid, dbOk, encryptionKey,
          failStreak, ret,
          pc, loc, sessionMutex, userMutex, res, calls, incCalls, securityEvents,
          dialog>>

\* the variables of the threads and of the login dialog
threadVars == <<pc, loc, sessionMutex, userMutex, res, calls, incCalls, securityEvents,
                dialog>>

\* ------------------------------------------------------------- finite maps
Put(f, k, v) == [x \in (DOMAIN f) \cup {k} |-> IF x = k THEN v ELSE f[x]]

Remove(f, k) == [x \in (DOMAIN f) \ {k} |-> f[x]]

EmptyMap == [x \in {} |-> 0]

\* ------------------------------------------------------------ value model
\* User(): a value-initialised User
NoUser ==
    [userId |-> "", username |-> "", passwordHash |-> <<>>, salt |-> <<>>,
     role |-> "SuperAdmin", isActive |-> FALSE, lastLogin |-> NullTime,
     failedLoginAttempts |-> 0, lockoutUntil |-> NullTime]

\* QByteArray::toBase64 / QByteArray::fromBase64 on token sequences
ToBase64(bytes) == <<"b64">> \o bytes

FromBase64(text) ==
    IF Len(text) > 0 /\ text[1] = "b64" THEN Tail(text) ELSE <<>>

\* PKCS5_PBKDF2_HMAC(password, salt, 100000, sha256, 32)
PBKDF2(passwordBytes, saltBytes) ==
    <<"kdf">> \o passwordBytes \o <<"$">> \o saltBytes

RandSalts == {ToBase64(<<"r1">>), ToBase64(<<"r2">>)}

\* hashPassword(password, salt); rnd is what generateSalt() returns
hashPassword(password, salt, rnd) ==
    LET actualSalt == IF salt = <<>> THEN rnd ELSE salt
        saltBytes == FromBase64(actualSalt)
    IN  ToBase64(PBKDF2(password, saltBytes))

\* variant: the salt given is set aside and a new one drawn
verifyPassword_FreshSalt(password, hash, salt, rnd) ==
    hashPassword(password, <<>>, rnd) = hash

verifyPassword(password, hash, salt, rnd) ==
    hashPassword(password, salt, rnd) = hash

SaltA == ToBase64(<<"sA">>)
SaltB == ToBase64(<<"sB">>)

StoredUser(name, salt, active, role) ==
    [userId |-> name, username |-> name,
     passwordHash |-> hashPassword(GoodPassword, salt, salt), salt |-> salt,
     role |-> role, isActive |-> active, lastLogin |-> NullTime,
     failedLoginAttempts |-> 0, lockoutUntil |-> NullTime]

\* -------------------------------------------------------------- the store
\* getUserByUsername: the cached user if there is one, else the row of the
\* users table, which is then cached; User() when the query fails or finds
\* nothing.  Yields the user and the cache afterwards.
getUserByUsername(cache, db, ok, username) ==
    IF \E k \in DOMAIN cache : cache[k].username = username
    THEN [user |-> cache[CHOOSE k \in DOMAIN cache : cache[k].username = username],
          cache |-> cache]
    ELSE IF ok /\ username \in DOMAIN db
         THEN [user |-> db[username], cache |-> Put(cache, username, db[username])]
         ELSE [user |-> NoUser, cache |-> cache]

\* saveUser: UPDATE (or INSERT) the row, then put the user in the cache;
\* a failed query leaves both as they were.
saveUser(cache, db, ok, user) ==
    IF ok
    THEN [ok |-> TRUE, db |-> Put(db, user.username, user),
          cache |-> Put(cache, user.username, user)]
    ELSE [ok |-> FALSE, db |-> db, cache |-> cache]


\* ------------------------------------------------------- lockout policy
\* variant: the lockout never elapses
userLocked_NoExpiry(user, t) ==
    /\ user.username # ""
    /\ user.failedLoginAttempts >= MAX_LOGIN_ATTEMPTS
    /\ user.lockoutUntil # NullTime

\* the test of isUserLocked on a fetched user
userLocked(user, t) ==
    /\ user.username # ""
    /\ user.failedLoginAttempts >= MAX_LOGIN_ATTEMPTS
    /\ user.lockoutUntil # NullTime
    /\ user.lockoutUntil > t

\* variant: nobody is ever found locked
isUserLocked_Never(cache, db, ok, username, t) ==
    LET g == getUserByUsername(cache, db, ok, username)
    IN  [locked |-> FALSE, cache |-> g.cache]

isUserLocked(cache, db, ok, username, t) ==
    LET g == getUserByUsername(cache, db, ok, username)
    IN  [locked |-> userLocked(g.user, t), cache |-> g.cache]

\* variant: the counter is incremented but lockoutUntil is never stamped
failedAttempt_NoStamp(user, t) ==
    [user EXCEPT !.failedLoginAttempts = @ + 1]

\* the change incrementFailedAttempts makes to the user it fetched
failedAttempt(user, t) ==
    LET n == user.failedLoginAttempts + 1
    IN  [user EXCEPT !.failedLoginAttempts = n,
                     !.lockoutUntil = IF n >= MAX_LOGIN_ATTEMPTS
                                      THEN t + LOGIN_LOCKOUT_MINUTES * 60
                                      ELSE @]

incrementFailedAttempts(cache, db, ok, username, t) ==
    LET g == getUserByUsername(cache, db, ok, username)
    IN  IF g.user.username = ""
        THEN [db |-> db, cache |-> g.cache]
        ELSE LET s == saveUser(g.cache, db, ok, failedAttempt(g.user, t))
             IN  [db |-> s.db, cache |-> s.cache]

\* the change resetFailedAttempts makes to the user it fetched
clearedAttempts(user) ==
    [user EXCEPT !.failedLoginAttempts = 0, !.lockoutUntil = NullTime]

resetFailedAttempts(cache, db, ok, username) ==
    LET g == getUserByUsername(cache, db, ok, username)
    IN  IF g.user.username = ""
        THEN [db |-> db, cache |-> g.cache]
        ELSE LET s == saveUser(g.cache, db, ok, clearedAttempts(g.user))
             IN  [db |-> s.db, cache |-> s.cache]

\* ------------------------------------------------------ session registry
\* the UserSession authenticate builds; loginTime, which is stamped here with
\* the value of lastActivity and never read or written again, is not carried
newSession(user, sessionId, t) ==
    [userId |-> user.userId, sessionId |-> sessionId, role |-> user.role,
     lastActivity |-> t, ipAddress |-> ClientIp, failedAttempts |-> 0]

\* variant: a session is expired already at the limit
sessionExpired_AtLimit(session, t) ==
    session.lastActivity + SESSION_TIMEOUT_MINUTES * 60 <= t

\* the expiry test of validateSession and cleanExpiredSessions
sessionExpired(session, t) ==
    session.lastActivity + SESSION_TIMEOUT_MINUTES * 60 < t

\* variant: isActive is not looked at
userInactive_Skipped(user) == FALSE

\* the test of authenticate on the fetched user's isActive
userInactive(user) == ~user.isActive

\* the user authenticate saves last: the copy it fetched before the
\* counters were reset, with lastLogin set
lastLoginUser(user, t) == [user EXCEPT !.lastLogin = t]

\* the security_events table, which is written and never read: the number
\* of rows of each event_type
EventTypes == {"AUTH_FAILED", "AUTH_SUCCESS"}

NoEvents == [e \in EventTypes |-> 0]

\* variant: the row of a failure is not stored
logSecurityEvent_SuccessOnly(log, ok, event) ==
    IF ok /\ event = "AUTH_SUCCESS" THEN [log EXCEPT ![event] = @ + 1] ELSE log

\* logSecurityEvent(event, details): one row is inserted when the query
\* executes; when it does not the failure is logged and the row is missing
logSecurityEvent(log, ok, event) ==
    IF ok THEN [log EXCEPT ![event] = @ + 1] ELSE log

\* the last completed call
Ret(op, user, sid, ok) ==
    [op |-> op, user |-> user, sid |-> sid, ok |-> ok,
     events |-> <<>>, verified |-> FALSE, evicted |-> FALSE]

\* variant: the caller of a locked account is told so by the value returned
authFailure_Telling(cache, db, sessions, sidCount, reason, verified) ==
    [cache |-> cache, db |-> db, sessions |-> sessions, sidCount |-> sidCount,
     sid |-> IF reason = "locked" THEN NullTime ELSE NoSessionId,
     events |-> <<"AUTH_FAILED">>, reason |-> reason, verified |-> verified]

\* a failure path of authenticate: AUTH_FAILED is logged with the reason
\* in its details, QString() is returned
authFailure(cache, db, sessions, sidCount, reason, verified) ==
    [cache |-> cache, db |-> db, sessions |-> sessions, sidCount |-> sidCount,
     sid |-> NoSessionId, events |-> <<"AUTH_FAILED">>,
     reason |-> reason, verified |-> verified]

\* authenticate(username, password, ipAddress) run to completion at time t:
\* the store, the cache, the registry and the returned session id afterwards.
authenticateResult(cache, db, ok, sessions, sidCount, t, username, password, rnd) ==
    LET l == isUserLocked(cache, db, ok, username, t)
        g == getUserByUsername(l.cache, db, ok, username)
        user == g.user
        fail(c, d, reason, verified) ==
            authFailure(c, d, sessions, sidCount, reason, verified)
    IN  IF l.locked THEN fail(l.cache, db, "locked", FALSE)
        ELSE IF user.username = "" THEN fail(g.cache, db, "not found", FALSE)
        ELSE IF userInactive(user) THEN fail(g.cache, db, "inactive", FALSE)
        ELSE IF ~verifyPassword(password, user.passwordHash, user.salt, rnd)
        THEN LET i == incrementFailedAttempts(g.cache, db, ok, username, t)
             IN  fail(i.cache, i.db, "invalid password", TRUE)
        ELSE LET r == resetFailedAttempts(g.cache, db, ok, username)
                 sessionId == sidCount + 1
                 s == saveUser(r.cache, r.db, ok, lastLoginUser(user, t))
             IN  [cache |-> s.cache, db |-> s.db,
                  sessions |-> Put(sessions, sessionId, newSession(user, sessionId, t)),
                  sidCount |-> sessionId, sid |-> sessionId,
                  events |-> <<"AUTH_SUCCESS">>, reason |-> "", verified |-> TRUE]


\* ----------------------------------------------------------------- cipher
\* Text is a sequence of UTF-16 code units and a QByteArray a sequence of
\* bytes, both written as tokens.
IvLen == 16
KeyLen == 32

Rep(n, token) == [i \in 1..n |-> token]

\* the code units of the texts: a letter, a letter of two bytes, a high
\* surrogate that stands alone, and the two replacement characters
Utf8Of(unit) ==
    CASE unit = "h" -> <<"68">>
      [] unit = "e9" -> <<"C3", "A9">>
      [] unit = "FFFD" -> <<"EF", "BF", "BD">>
      [] OTHER -> <<"3F">>

\* QString::toUtf8: an unpaired surrogate is written as '?'
RECURSIVE toUtf8(_)
toUtf8(text) ==
    IF text = <<>> THEN <<>> ELSE Utf8Of(Head(text)) \o toUtf8(Tail(text))

\* QString::fromUtf8: bytes that are no UTF-8 are read as U+FFFD
RECURSIVE fromUtf8(_)
fromUtf8(bytes) ==
    IF bytes = <<>> THEN <<>>
    ELSE IF bytes[1] = "68" THEN <<"h">> \o fromUtf8(Tail(bytes))
    ELSE IF bytes[1] = "3F" THEN <<"?">> \o fromUtf8(Tail(bytes))
    ELSE IF Len(bytes) >= 2 /\ SubSeq(bytes, 1, 2) = <<"C3", "A9">>
         THEN <<"e9">> \o fromUtf8(SubSeq(bytes, 3, Len(bytes)))
    ELSE IF Len(bytes) >= 3 /\ SubSeq(bytes, 1, 3) = <<"EF", "BF", "BD">>
         THEN <<"FFFD">> \o fromUtf8(SubSeq(bytes, 4, Len(bytes)))
    ELSE <<"FFFD">> \o fromUtf8(Tail(bytes))

\* the KeyLen bytes EVP_EncryptInit_ex / EVP_DecryptInit_ex read at
\* keyBytes.constData(): when the key decodes to fewer bytes, the rest is
\* whatever lies behind the buffer (beyond)
keyRead(keyBytes, beyond) ==
    IF Len(keyBytes) >= KeyLen THEN SubSeq(keyBytes, 1, KeyLen)
    ELSE keyBytes \o SubSeq(beyond, 1, KeyLen - Len(keyBytes))

\* AES-256-CBC with PKCS padding: the ciphertext is fixed by key, IV and
\* plaintext, and gives the plaintext back under that key and IV only
EVP_Encrypt(key, iv, plaintext) == <<"aes">> \o key \o iv \o plaintext

EVP_Decrypt(key, iv, ciphertext) ==
    IF /\ Len(ciphertext) >= 1 + KeyLen + IvLen
       /\ ciphertext[1] = "aes"
       /\ SubSeq(ciphertext, 2, KeyLen + 1) = key
       /\ SubSeq(ciphertext, KeyLen + 2, KeyLen + IvLen + 1) = iv
    THEN [ok |-> TRUE,
          plaintext |-> SubSeq(ciphertext, KeyLen + IvLen + 2, Len(ciphertext))]
    ELSE [ok |-> FALSE, plaintext |-> <<>>]

\* RAND_bytes: the bytes, or no bytes at all when it reports failure
RandFailed == <<>>

\* encrypt(data, key): base64 of IV || ciphertext, the null string when the
\* IV cannot be drawn.  defaultKey is the member encryptionKey, iv what
\* RAND_bytes gives.
encrypt(data, key, defaultKey, iv, beyond) ==
    LET actualKey == IF key = <<>> THEN defaultKey ELSE key
        keyBytes == FromBase64(actualKey)
        ciphertext == EVP_Encrypt(keyRead(keyBytes, beyond), iv, toUtf8(data))
    IN  IF iv = RandFailed THEN <<>> ELSE ToBase64(iv \o ciphertext)

\* variant: the length of the blob is not looked at
decrypt_NoLengthCheck(encryptedData, key, defaultKey, beyond) ==
    LET actualKey == IF key = <<>> THEN defaultKey ELSE key
        data == FromBase64(encryptedData)
        iv == SubSeq(data, 1, IvLen)
        ciphertext == SubSeq(data, IvLen + 1, Len(data))
        keyBytes == FromBase64(actualKey)
        d == EVP_Decrypt(keyRead(keyBytes, beyond), iv, ciphertext)
    IN  IF ~d.ok THEN [out |-> <<>>, cipherRun |-> TRUE]
        ELSE [out |-> fromUtf8(d.plaintext), cipherRun |-> TRUE]

\* decrypt(encryptedData, key): the text and whether the cipher was run
decrypt(encryptedData, key, defaultKey, beyond) ==
    LET actualKey == IF key = <<>> THEN defaultKey ELSE key
        data == FromBase64(encryptedData)
        iv == SubSeq(data, 1, IvLen)
        ciphertext == SubSeq(data, IvLen + 1, Len(data))
        keyBytes == FromBase64(actualKey)
        d == EVP_Decrypt(keyRead(keyBytes, beyond), iv, ciphertext)
    IN  IF Len(data) < IvLen THEN [out |-> <<>>, cipherRun |-> FALSE]
        ELSE IF ~d.ok THEN [out |-> <<>>, cipherRun |-> TRUE]
        ELSE [out |-> fromUtf8(d.plaintext), cipherRun |-> TRUE]

\* generateSecureKey(): base64 of 32 random bytes, the null string when
\* RAND_bytes fails
generateSecureKey(rnd) == IF rnd = RandFailed THEN <<>> ELSE ToBase64(rnd)

\* the constructor: the key of the settings, a new one when there is none
loadEncryptionKey(stored, rnd) ==
    IF stored = <<>> THEN generateSecureKey(rnd) ELSE stored

\* the texts, keys, IVs and blobs the cipher is called with
Plaintexts == {<<>>, <<"h">>, <<"h", "e9">>, <<"D800", "h">>}

KeyA == ToBase64(Rep(KeyLen, "kA"))
KeyB == ToBase64(Rep(KeyLen, "kB"))
ShortKey == ToBase64(<<"k1", "k2">>)

\* the key argument; the null string when the caller leaves it out
CipherKeys == {<<>>, KeyA, KeyB, ShortKey}

IVs == {Rep(IvLen, "i1"), Rep(IvLen, "i2"), RandFailed}

\* what may lie behind a key buffer that is too short
Beyond == {Rep(KeyLen, "00"), Rep(KeyLen, "AA")}

\* blobs that decode to fewer than IvLen bytes
ShortBlobs == {<<>>, <<"junk">>, ToBase64(<<>>), ToBase64(Rep(IvLen - 1, "i1"))}

\* ------------------------------------------------------------ permissions
Resources == {"visitor", "system_config", "reports"}
PermActions == {"register", "checkin", "checkout", "view"}

\* variant: the Administrator is kept away from the visitors
rolePermits_NoAdminVisitor(role, resource, action) ==
    CASE role = "SuperAdmin" -> TRUE
      [] role = "Administrator" -> resource \notin {"system_config", "visitor"}
      [] role = "Receptionist" ->
            resource = "visitor" /\ action \in {"register", "checkin", "checkout"}
      [] role = "SecurityGuard" -> resource = "visitor" /\ action = "view"
      [] OTHER -> FALSE

\* the switch of hasPermission on the role of the session
rolePermits(role, resource, action) ==
    CASE role = "SuperAdmin" -> TRUE
      [] role = "Administrator" -> resource # "system_config"
      [] role = "Receptionist" ->
            resource = "visitor" /\ action \in {"register", "checkin", "checkout"}
      [] role = "SecurityGuard" -> resource = "visitor" /\ action = "view"
      [] OTHER -> FALSE

\* hasPermission(sessionId, resource, action): reads the registry only
hasPermission(sessions, sessionId, resource, action) ==
    IF sessionId \notin DOMAIN sessions THEN FALSE
    ELSE rolePermits(sessions[sessionId].role, resource, action)

\* getUserRole(sessionId): reads the registry only; "InvalidSession" stands
\* for the std::runtime_error it throws
getUserRole(sessions, sessionId) ==
    IF sessionId \notin DOMAIN sessions THEN "InvalidSession"
    ELSE sessions[sessionId].role

\* the locals of authenticate: the arguments, the user fetched at line 96,
\* the user fetched and changed by increment/resetFailedAttempts, the
\* session id and the time read at line 120
NoLocals ==
    [username |-> "", password |-> <<>>, user |-> NoUser, tmp |-> NoUser,
     sid |-> NoSessionId, idSource |-> "", at |-> 0, verified |-> FALSE]

\* ------------------------------------------------------- the LoginDialog
MAX_FAILED_ATTEMPTS == 3
LOCKOUT_DURATION == 300
LoginDialog_MIN_PASSWORD_LENGTH == 8    \* LoginDialog::MIN_PASSWORD_LENGTH
MaxUsernameLength == 50

\* the dialog just constructed, with no username remembered: both edits
\* empty and enabled, the Login button disabled, the lockout timer idle.
\* box tells whether the last handler showed the "Account Locked" message
\* box; ticks is history: the timeouts of lockoutTimer since it was started
NewDialog ==
    [username |-> "", password |-> <<>>,
     loginEnabled |-> FALSE, inputEnabled |-> TRUE,
     sessionId |-> NoSessionId,
     failedAttempts |-> 0, lockoutTime |-> 0, isLocked |-> FALSE,
     lockoutTimerActive |-> FALSE,
     userRole |-> "SecurityGuard",
     result |-> "open", box |-> FALSE, ticks |-> 0]

\* ------------------------------------------------------------------ Init
\* the SecurityManager just constructed, with encryption key key, over a
\* users table in which alice has n failed attempts on record
InitStored(n, key) ==
    /\ now = 0
    /\ encryptionKey = key
    /\ users = [u \in {"alice", "bob"} |->
                   IF u = "alice"
                   THEN [StoredUser("alice", SaltA, TRUE, "Receptionist")
                           EXCEPT !.failedLoginAttempts = n]
                   ELSE StoredUser("bob", SaltB, FALSE, "SecurityGuard")]
    /\ userCache = EmptyMap
    /\ activeSessions = EmptyMap
    /\ nextSid = 0
    /\ dbOk = TRUE
    /\ failStreak = [u \in Usernames |-> 0]
    /\ ret = Ret("init", "", NoSessionId, FALSE)
    /\ pc = [t \in Threads |-> "idle"]
    /\ loc = [t \in Threads |-> NoLocals]
    /\ sessionMutex = 0
    /\ userMutex = 0
    /\ res = [t \in Threads |-> Ret("init", "", NoSessionId, FALSE)]
    /\ calls = 0
    /\ incCalls = 0
    /\ securityEvents = NoEvents
    /\ dialog = NewDialog

Init == InitStored(0, KeyA)

\* --------------------------------------------- calls that run undisturbed
\* whether the stored user exists and is active
ActiveUser(db, username) == username \in DOMAIN db /\ db[username].isActive

Min(a, b) == IF a < b THEN a ELSE b

\* what generateSalt() may return inside verifyPassword: it is called only
\* when the stored salt is empty
SaltDraws(db, username) ==
    IF username \in DOMAIN db /\ db[username].salt = <<>>
    THEN RandSalts
    ELSE {ToBase64(<<"r1">>)}

\* what authenticate does to the SecurityManager and the store, as one
\* step; with track, the history of failures in a row is kept
authenticateState(username, password, track) ==
    \E rnd \in SaltDraws(users, username) :
        \E a \in {authenticateResult(userCache, users, dbOk, activeSessions,
                                     nextSid, now, username, password, rnd)} :
            /\ a.sidCount <= MaxSessions
            /\ \A u \in DOMAIN a.db : a.db[u].failedLoginAttempts <= MaxFailed
            /\ users' = a.db
            /\ userCache' = a.cache
            /\ activeSessions' = a.sessions
            /\ nextSid' = a.sidCount
            /\ failStreak' =
                 IF ~track THEN failStreak
                 ELSE [failStreak EXCEPT ![username] =
                         IF a.sid # NoSessionId THEN 0
                         ELSE IF ActiveUser(users, username)
                              THEN Min(@ + 1, MAX_LOGIN_ATTEMPTS)
                              ELSE @]
            /\ ret' = [Ret("authenticate", username, a.sid, a.sid # NoSessionId)
                         EXCEPT !.events = a.events, !.verified = a.verified]
            /\ UNCHANGED <<now, dbOk, encryptionKey>>

\* authenticate called outside the threads and the login dialog
authenticateCall(username, password, track) ==
    /\ authenticateState(username, password, track)
    /\ UNCHANGED threadVars

authenticate(username, password) == authenticateCall(username, password, FALSE)

\* variant: an expired session is refused instead of removed
logout_LiveOnly(sessionId) ==
    /\ sessionMutex = 0
    /\ IF sessionId \in DOMAIN activeSessions
          /\ ~sessionExpired(activeSessions[sessionId], now)
       THEN /\ activeSessions' = Remove(activeSessions, sessionId)
            /\ ret' = Ret("logout", "", NoSessionId, TRUE)
       ELSE /\ activeSessions' = activeSessions
            /\ ret' = Ret("logout", "", NoSessionId, FALSE)
    /\ UNCHANGED <<now, users, userCache, nextSid, dbOk, encryptionKey, failStreak>>
    /\ UNCHANGED threadVars

\* variant: every session of the user of that session is removed
logout_AllOfUser(sessionId) ==
    /\ sessionMutex = 0
    /\ activeSessions' =
         IF sessionId \notin DOMAIN activeSessions THEN activeSessions
         ELSE [s \in {x \in DOMAIN activeSessions :
                        activeSessions[x].userId # activeSessions[sessionId].userId}
                 |-> activeSessions[s]]
    /\ ret' = Ret("logout", "", NoSessionId, sessionId \in DOMAIN activeSessions)
    /\ UNCHANGED <<now, users, userCache, nextSid, dbOk, encryptionKey, failStreak>>
    /\ UNCHANGED threadVars

logout(sessionId) ==
    /\ sessionMutex = 0
    /\ activeSessions' = Remove(activeSessions, sessionId)
    /\ ret' = Ret("logout", "", NoSessionId, sessionId \in DOMAIN activeSessions)
    /\ UNCHANGED <<now, users, userCache, nextSid, dbOk, encryptionKey, failStreak>>
    /\ UNCHANGED threadVars

\* variant: an expired session is reported but stays in the registry
validateSession_NoEvict(sessionId) ==
    /\ sessionMutex = 0
    /\ IF sessionId \notin DOMAIN activeSessions
       THEN /\ activeSessions' = activeSessions
            /\ ret' = Ret("validateSession", "", NoSessionId, FALSE)
       ELSE IF sessionExpired(activeSessions[sessionId], now)
       THEN /\ activeSessions' = activeSessions
            /\ ret' = [Ret("validateSession", "", NoSessionId, FALSE)
                         EXCEPT !.evicted = TRUE]
       ELSE /\ activeSessions' = [activeSessions EXCEPT ![sessionId].lastActivity = now]
            /\ ret' = Ret("validateSession", "", NoSessionId, TRUE)
    /\ UNCHANGED <<now, users, userCache, nextSid, dbOk, encryptionKey, failStreak>>
    /\ UNCHANGED threadVars

validateSession(sessionId) ==
    /\ sessionMutex = 0
    /\ IF sessionId \notin DOMAIN activeSessions
       THEN /\ activeSessions' = activeSessions
            /\ ret' = Ret("validateSession", "", NoSessionId, FALSE)
       ELSE IF sessionExpired(activeSessions[sessionId], now)
       THEN /\ activeSessions' = Remove(activeSessions, sessionId)
            /\ ret' = [Ret("validateSession", "", NoSessionId, FALSE)
                         EXCEPT !.evicted = TRUE]
       ELSE /\ activeSessions' = [activeSessions EXCEPT ![sessionId].lastActivity = now]
            /\ ret' = Ret("validateSession", "", NoSessionId, TRUE)
    /\ UNCHANGED <<now, users, userCache, nextSid, dbOk, encryptionKey, failStreak>>
    /\ UNCHANGED threadVars

updateLastActivity(sessionId) ==
    /\ sessionMutex = 0
    /\ activeSessions' = IF sessionId \in DOMAIN activeSessions
                         THEN [activeSessions EXCEPT ![sessionId].lastActivity = now]
                         ELSE activeSessions
    /\ UNCHANGED <<now, users, userCache, nextSid, dbOk, encryptionKey, failStreak, ret>>
    /\ UNCHANGED threadVars

\* variant: the sweep takes a session already at the limit
cleanExpiredSessions_AtLimit ==
    /\ sessionMutex = 0
    /\ activeSessions' =
         [s \in {x \in DOMAIN activeSessions :
                    ~sessionExpired_AtLimit(activeSessions[x], now)}
            |-> activeSessions[s]]
    /\ UNCHANGED <<now, users, userCache, nextSid, dbOk, encryptionKey, failStreak, ret>>
    /\ UNCHANGED threadVars

cleanExpiredSessions ==
    /\ sessionMutex = 0
    /\ activeSessions' =
         [s \in {x \in DOMAIN activeSessions : ~sessionExpired(activeSessions[x], now)}
            |-> activeSessions[s]]
    /\ UNCHANGED <<now, users, userCache, nextSid, dbOk, encryptionKey, failStreak, ret>>
    /\ UNCHANGED threadVars

\* the clock advances
Tick ==
    /\ now < MaxTicks * TickSecs
    /\ now' = now + TickSecs
    /\ UNCHANGED <<users, userCache, activeSessions, nextSid, dbOk, encryptionKey, failStreak, ret>>
    /\ UNCHANGED threadVars

Next ==
    \/ \E u \in Usernames, p \in Passwords : authenticate(u, p)
    \/ \E s \in SessionIds : logout(s)
    \/ \E s \in SessionIds : validateSession(s)
    \/ \E s \in SessionIds : updateLastActivity(s)
    \/ cleanExpiredSessions
    \/ Tick

Spec == Init /\ [][Next]_vars


\* alice logs in; her sessions are validated, refreshed and swept, and no
\* session is logged out
NextSweep ==
    \/ authenticate("alice", GoodPassword)
    \/ \E s \in SessionIds : validateSession(s)
    \/ \E s \in SessionIds : updateLastActivity(s)
    \/ cleanExpiredSessions
    \/ Tick

SpecSweep == Init /\ [][NextSweep]_vars

\* alice logs in more than once; her sessions are logged out, validated
\* and swept
NextSessions ==
    \/ authenticate("alice", GoodPassword)
    \/ \E s \in SessionIds : logout(s)
    \/ \E s \in SessionIds : validateSession(s)
    \/ cleanExpiredSessions
    \/ Tick

SpecSessions == Init /\ [][NextSessions]_vars

\* calls of authenticate only, with the history of failures kept
NextLockout ==
    \/ \E u \in Usernames, p \in Passwords : authenticateCall(u, p, TRUE)
    \/ Tick

SpecLockout == Init /\ [][NextLockout]_vars

\* ------------------------------------------- authenticate, step by step
\* Each step is one access to the shared state: a getUserByUsername (under
\* userMutex), a query of saveUser, the cache update of saveUser (under
\* userMutex), the insert under sessionMutex.  Other threads and the clock
\* move between the steps.
seqVars == <<failStreak, ret, dbOk, encryptionKey, userMutex, dialog>>

stepVars == <<failStreak, ret, dbOk, encryptionKey, calls, userMutex, dialog>>

\* the call logs its event and returns: the result is kept, the locals are
\* dropped
Return(t, sid, event) ==
    /\ securityEvents' = logSecurityEvent(securityEvents, dbOk, event)
    /\ pc' = [pc EXCEPT ![t] = "idle"]
    /\ loc' = [loc EXCEPT ![t] = NoLocals]
    /\ res' = [res EXCEPT ![t] =
                 [Ret("authenticate", loc[t].username, sid, sid # NoSessionId)
                    EXCEPT !.events = <<event>>, !.verified = loc[t].verified]]

Goto(t, label, locals) ==
    /\ securityEvents' = securityEvents
    /\ pc' = [pc EXCEPT ![t] = label]
    /\ loc' = [loc EXCEPT ![t] = locals]
    /\ res' = res

\* a thread enters authenticate(username, password, ipAddress)
Call(t, username, password) ==
    /\ pc[t] = "idle"
    /\ calls < MaxCalls
    /\ calls' = calls + 1
    /\ Goto(t, "isUserLocked",
            [NoLocals EXCEPT !.username = username, !.password = password])
    /\ UNCHANGED <<now, users, userCache, activeSessions, nextSid,
                   sessionMutex, incCalls>>
    /\ UNCHANGED seqVars

\* line 90: isUserLocked(username)
StepIsUserLocked(t) ==
    /\ pc[t] = "isUserLocked"
    /\ LET l == isUserLocked(userCache, users, dbOk, loc[t].username, now)
       IN  /\ userCache' = l.cache
           /\ IF l.locked
              THEN Return(t, NoSessionId, "AUTH_FAILED")
              ELSE Goto(t, "getUser", loc[t])
    /\ UNCHANGED <<now, users, activeSessions, nextSid, sessionMutex, incCalls>>
    /\ UNCHANGED stepVars

\* variant: sessionMutex is taken before the password is verified
StepGetUser_Locking(t) ==
    /\ pc[t] = "getUser"
    /\ sessionMutex = 0
    /\ LET g == getUserByUsername(userCache, users, dbOk, loc[t].username)
       IN  /\ userCache' = g.cache
           /\ IF g.user.username = "" \/ userInactive(g.user)
              THEN /\ Return(t, NoSessionId, "AUTH_FAILED")
                   /\ sessionMutex' = 0
              ELSE /\ Goto(t, "verifyPassword", [loc[t] EXCEPT !.user = g.user])
                   /\ sessionMutex' = t
    /\ UNCHANGED <<now, users, activeSessions, nextSid, incCalls>>
    /\ UNCHANGED stepVars

\* lines 96-106: getUserByUsername(username), not found, inactive
StepGetUser(t) ==
    /\ pc[t] = "getUser"
    /\ LET g == getUserByUsername(userCache, users, dbOk, loc[t].username)
       IN  /\ userCache' = g.cache
           /\ IF g.user.username = "" \/ userInactive(g.user)
              THEN Return(t, NoSessionId, "AUTH_FAILED")
              ELSE Goto(t, "verifyPassword", [loc[t] EXCEPT !.user = g.user])
    /\ UNCHANGED <<now, users, activeSessions, nextSid, sessionMutex, incCalls>>
    /\ UNCHANGED stepVars

\* line 109: verifyPassword, which touches no shared state
StepVerifyPassword(t) ==
    /\ pc[t] = "verifyPassword"
    /\ \E rnd \in SaltDraws(users, loc[t].username) :
          IF verifyPassword(loc[t].password, loc[t].user.passwordHash,
                            loc[t].user.salt, rnd)
          THEN Goto(t, "resetFetch", [loc[t] EXCEPT !.verified = TRUE])
          ELSE Goto(t, "incFetch", [loc[t] EXCEPT !.verified = TRUE])
    /\ UNCHANGED <<now, users, userCache, activeSessions, nextSid,
                   sessionMutex, incCalls>>
    /\ UNCHANGED stepVars

\* incrementFailedAttempts, lines 486-494: the user is fetched under
\* userMutex; the count and the stamp are made on the copy
StepIncFetch(t) ==
    /\ pc[t] = "incFetch"
    /\ LET g == getUserByUsername(userCache, users, dbOk, loc[t].username)
       IN  /\ userCache' = g.cache
           /\ IF g.user.username = ""
              THEN /\ Return(t, NoSessionId, "AUTH_FAILED")
                   /\ incCalls' = incCalls + 1
              ELSE /\ Goto(t, "incSave",
                           [loc[t] EXCEPT !.tmp = failedAttempt(g.user, now)])
                   /\ incCalls' = incCalls
    /\ UNCHANGED <<now, users, activeSessions, nextSid, sessionMutex>>
    /\ UNCHANGED stepVars

\* saveUser, lines 601-654: the row is written
StepIncSave(t) ==
    /\ pc[t] = "incSave"
    /\ IF dbOk
       THEN /\ users' = Put(users, loc[t].tmp.username, loc[t].tmp)
            /\ Goto(t, "incCache", loc[t])
            /\ incCalls' = incCalls
       ELSE /\ users' = users
            /\ Return(t, NoSessionId, "AUTH_FAILED")
            /\ incCalls' = incCalls + 1
    /\ UNCHANGED <<now, userCache, activeSessions, nextSid, sessionMutex>>
    /\ UNCHANGED stepVars

\* saveUser, lines 657-658: the cache is updated; lines 111-112
StepIncCache(t) ==
    /\ pc[t] = "incCache"
    /\ userCache' = Put(userCache, loc[t].tmp.username, loc[t].tmp)
    /\ Return(t, NoSessionId, "AUTH_FAILED")
    /\ incCalls' = incCalls + 1
    /\ UNCHANGED <<now, users, activeSessions, nextSid, sessionMutex>>
    /\ UNCHANGED stepVars

\* resetFailedAttempts, lines 501-507: fetch the user, clear
StepResetFetch(t) ==
    /\ pc[t] = "resetFetch"
    /\ LET g == getUserByUsername(userCache, users, dbOk, loc[t].username)
       IN  /\ userCache' = g.cache
           /\ IF g.user.username = ""
              THEN Goto(t, "generateSessionId", loc[t])
              ELSE Goto(t, "resetSave", [loc[t] EXCEPT !.tmp = clearedAttempts(g.user)])
    /\ UNCHANGED <<now, users, activeSessions, nextSid, sessionMutex, incCalls>>
    /\ UNCHANGED stepVars

StepResetSave(t) ==
    /\ pc[t] = "resetSave"
    /\ IF dbOk
       THEN /\ users' = Put(users, loc[t].tmp.username, loc[t].tmp)
            /\ Goto(t, "resetCache", loc[t])
       ELSE /\ users' = users
            /\ Goto(t, "generateSessionId", loc[t])
    /\ UNCHANGED <<now, userCache, activeSessions, nextSid, sessionMutex, incCalls>>
    /\ UNCHANGED stepVars

StepResetCache(t) ==
    /\ pc[t] = "resetCache"
    /\ userCache' = Put(userCache, loc[t].tmp.username, loc[t].tmp)
    /\ Goto(t, "generateSessionId", loc[t])
    /\ UNCHANGED <<now, users, activeSessions, nextSid, sessionMutex, incCalls>>
    /\ UNCHANGED stepVars

\* generateSessionId(): the n-th id, base64 of 32 bytes of RAND_bytes, or a
\* QUuid when RAND_bytes fails; random is what RAND_bytes gives
generateSessionId(random, n) ==
    [id |-> n, source |-> IF random = RandFailed THEN "QUuid" ELSE "RAND_bytes"]

\* lines 119-120: generateSessionId(), currentDateTime()
StepGenerateSessionId(t) ==
    /\ pc[t] = "generateSessionId"
    /\ nextSid < MaxSessions
    /\ nextSid' = nextSid + 1
    /\ \E random \in {Rep(KeyLen, "s1"), RandFailed} :
          \E g \in {generateSessionId(random, nextSid + 1)} :
              Goto(t, "insertSession",
                   [loc[t] EXCEPT !.sid = g.id, !.idSource = g.source, !.at = now])
    /\ UNCHANGED <<now, users, userCache, activeSessions, sessionMutex, incCalls>>
    /\ UNCHANGED stepVars

\* lines 131-132: sessionMutex is taken, the session is inserted
StepInsertSession(t) ==
    /\ pc[t] = "insertSession"
    /\ sessionMutex = 0
    /\ sessionMutex' = t
    /\ activeSessions' = Put(activeSessions, loc[t].sid,
                             newSession(loc[t].user, loc[t].sid, loc[t].at))
    /\ Goto(t, "loginSave", loc[t])
    /\ UNCHANGED <<now, users, userCache, nextSid, incCalls>>
    /\ UNCHANGED stepVars

\* lines 135-136 and saveUser, lines 601-654, with sessionMutex held: the
\* user fetched at line 96 is written with lastLogin set
StepLoginSave(t) ==
    /\ pc[t] = "loginSave"
    /\ IF dbOk
       THEN /\ users' = Put(users, loc[t].user.username,
                            lastLoginUser(loc[t].user, loc[t].at))
            /\ Goto(t, "loginCache", loc[t])
       ELSE /\ users' = users
            /\ Goto(t, "loginReturn", loc[t])
    /\ UNCHANGED <<now, userCache, activeSessions, nextSid, sessionMutex, incCalls>>
    /\ UNCHANGED stepVars

\* saveUser, lines 657-658, with sessionMutex held
StepLoginCache(t) ==
    /\ pc[t] = "loginCache"
    /\ userCache' = Put(userCache, loc[t].user.username,
                        lastLoginUser(loc[t].user, loc[t].at))
    /\ Goto(t, "loginReturn", loc[t])
    /\ UNCHANGED <<now, users, activeSessions, nextSid, sessionMutex, incCalls>>
    /\ UNCHANGED stepVars

\* lines 138-140: AUTH_SUCCESS, the session id is returned, the lock released
StepLoginReturn(t) ==
    /\ pc[t] = "loginReturn"
    /\ sessionMutex' = 0
    /\ Return(t, loc[t].sid, "AUTH_SUCCESS")
    /\ UNCHANGED <<now, users, userCache, activeSessions, nextSid, incCalls>>
    /\ UNCHANGED stepVars

\* threads that call authenticate with a wrong password for alice
NextRace ==
    \/ \E t \in Threads : Call(t, "alice", BadPassword)
    \/ \E t \in Threads : StepIsUserLocked(t)
    \/ \E t \in Threads : StepGetUser(t)
    \/ \E t \in Threads : StepVerifyPassword(t)
    \/ \E t \in Threads : StepIncFetch(t)
    \/ \E t \in Threads : StepIncSave(t)
    \/ \E t \in Threads : StepIncCache(t)
    \/ Tick

SpecRace == Init /\ [][NextRace]_vars

\* threads that call authenticate for any username with either password,
\* within one reading of the clock; the table may hold alice one failure
\* short of the lockout
NextAudit ==
    \/ \E t \in Threads, u \in Usernames, p \in Passwords :
          calls < MaxAudited /\ Call(t, u, p)
    \/ \E t \in Threads : StepIsUserLocked(t)
    \/ \E t \in Threads : StepGetUser(t)
    \/ \E t \in Threads : StepVerifyPassword(t)
    \/ \E t \in Threads : StepIncFetch(t)
    \/ \E t \in Threads : StepIncSave(t)
    \/ \E t \in Threads : StepIncCache(t)
    \/ \E t \in Threads : StepResetFetch(t)
    \/ \E t \in Threads : StepResetSave(t)
    \/ \E t \in Threads : StepResetCache(t)
    \/ \E t \in Threads : StepGenerateSessionId(t)
    \/ \E t \in Threads : StepInsertSession(t)
    \/ \E t \in Threads : StepLoginSave(t)
    \/ \E t \in Threads : StepLoginCache(t)
    \/ \E t \in Threads : StepLoginReturn(t)

InitAudit == \E n \in {0, MAX_LOGIN_ATTEMPTS - 1} : InitStored(n, KeyA)

SpecAudit == InitAudit /\ [][NextAudit]_vars

\* ------------------------------------------------------ calls of the cipher
encryptCall(data, key) ==
    /\ \E iv \in IVs, beyond \in Beyond :
          ret' = [op |-> "encrypt", data |-> data, key |-> key,
                  out |-> encrypt(data, key, encryptionKey, iv, beyond)]
    /\ UNCHANGED <<now, users, userCache, activeSessions, nextSid, dbOk,
                   encryptionKey, failStreak>>
    /\ UNCHANGED threadVars

decryptCall(encryptedData, key) ==
    /\ \E beyond \in Beyond :
          \E d \in {decrypt(encryptedData, key, encryptionKey, beyond)} :
              ret' = [op |-> "decrypt", data |-> encryptedData, key |-> key,
                      out |-> d.out, cipherRun |-> d.cipherRun]
    /\ UNCHANGED <<now, users, userCache, activeSessions, nextSid, dbOk,
                   encryptionKey, failStreak>>
    /\ UNCHANGED threadVars

\* the blob decrypt is given: the one encrypt has just returned, or a short one
BlobsAt(last) == IF last.op = "encrypt" THEN ShortBlobs \cup {last.out} ELSE ShortBlobs

NextCipher ==
    \/ \E data \in Plaintexts, key \in CipherKeys : encryptCall(data, key)
    \/ \E blob \in BlobsAt(ret), key \in CipherKeys : decryptCall(blob, key)

\* the key of the settings is one of 32 bytes, one of 2 bytes, or absent
InitCipher ==
    \E stored \in {<<>>, KeyA, ShortKey}, rnd \in {Rep(KeyLen, "kB"), RandFailed} :
        InitStored(0, loadEncryptionKey(stored, rnd))

SpecCipher == InitCipher /\ [][NextCipher]_vars

\* the threads' calls of authenticate after a start with any of these keys
SpecEntropy == InitCipher /\ [][NextAudit]_vars

\* ------------------------------------------------------ calls of the hasher
\* the salt argument; the null string when the caller leaves it out
HashSalts == {<<>>, SaltA, SaltB, <<"junk">>}

\* the password argument, the empty password among them
HashPasswords == Passwords \cup {<<>>}

\* what generateSalt() returns: a new salt, the null string when RAND_bytes
\* fails
GeneratedSalts == RandSalts \cup {<<>>}

hashPasswordCall(password, salt) ==
    /\ \E rnd \in GeneratedSalts :
          ret' = [op |-> "hashPassword", password |-> password, salt |-> salt,
                  out |-> hashPassword(password, salt, rnd)]
    /\ UNCHANGED <<now, users, userCache, activeSessions, nextSid, dbOk,
                   encryptionKey, failStreak>>
    /\ UNCHANGED threadVars

verifyPasswordCall(password, hash, salt) ==
    /\ \E rnd \in GeneratedSalts :
          ret' = [op |-> "verifyPassword", password |-> password, hash |-> hash,
                  salt |-> salt, out |-> verifyPassword(password, hash, salt, rnd)]
    /\ UNCHANGED <<now, users, userCache, activeSessions, nextSid, dbOk,
                   encryptionKey, failStreak>>
    /\ UNCHANGED threadVars

\* the hash verifyPassword is given: a stored one, or the one hashPassword
\* has just returned
HashesAt(last) ==
    {users[u].passwordHash : u \in DOMAIN users}
        \cup (IF last.op = "hashPassword" THEN {last.out} ELSE {})

NextHasher ==
    \/ \E password \in HashPasswords, salt \in HashSalts :
          hashPasswordCall(password, salt)
    \/ \E password \in HashPasswords, hash \in HashesAt(ret), salt \in HashSalts :
          verifyPasswordCall(password, hash, salt)

SpecHasher == Init /\ [][NextHasher]_vars

\* ------------------------------------------------- calls of hasPermission
\* a users table with one active user of each role, named after it
RoleUsers == UserRole

InitRoles ==
    /\ now = 0
    /\ encryptionKey = KeyA
    /\ users = [u \in RoleUsers |-> StoredUser(u, SaltA, TRUE, u)]
    /\ userCache = EmptyMap
    /\ activeSessions = EmptyMap
    /\ nextSid = 0
    /\ dbOk = TRUE
    /\ failStreak = [u \in Usernames |-> 0]
    /\ ret = Ret("init", "", NoSessionId, FALSE)
    /\ pc = [t \in Threads |-> "idle"]
    /\ loc = [t \in Threads |-> NoLocals]
    /\ sessionMutex = 0
    /\ userMutex = 0
    /\ res = [t \in Threads |-> Ret("init", "", NoSessionId, FALSE)]
    /\ calls = 0
    /\ incCalls = 0
    /\ securityEvents = NoEvents
    /\ dialog = NewDialog

hasPermissionCall(sessionId, resource, action) ==
    /\ sessionMutex = 0
    /\ ret' = [op |-> "hasPermission", sid |-> sessionId,
               resource |-> resource, action |-> action,
               out |-> hasPermission(activeSessions, sessionId, resource, action)]
    /\ UNCHANGED <<now, users, userCache, activeSessions, nextSid, dbOk,
                   encryptionKey, failStreak>>
    /\ UNCHANGED threadVars

\* users of every role log in and ask for permissions, within one reading
\* of the clock
NextRoles ==
    \/ \E u \in RoleUsers : authenticate(u, GoodPassword)
    \/ \E s \in SessionIds, r \in Resources, a \in PermActions :
          hasPermissionCall(s, r, a)

SpecRoles == InitRoles /\ [][NextRoles]_vars

\* ------------------------------------------------------------- restarts
\* what RAND_bytes gives generateSecureKey in a start
KeyDraws == {Rep(KeyLen, "kB"), Rep(KeyLen, "kC"), RandFailed}

\* The process ends and starts again.  The settings value
\* security/encryption_key is written by the constructor alone, with the key
\* it ends with, so what a start finds stored is the encryptionKey of the
\* run before.  The users table stays; the cache and the registry are new.
Restart ==
    /\ \A t \in Threads : pc[t] = "idle"
    /\ sessionMutex = 0
    /\ \E rnd \in KeyDraws :
          encryptionKey' = loadEncryptionKey(encryptionKey, rnd)
    /\ userCache' = EmptyMap
    /\ activeSessions' = EmptyMap
    /\ UNCHANGED <<now, users, nextSid, dbOk, failStreak, ret>>
    /\ UNCHANGED threadVars

\* the cipher is called and the process restarted
NextRestart ==
    \/ \E data \in Plaintexts, key \in CipherKeys : encryptCall(data, key)
    \/ \E blob \in BlobsAt(ret), key \in CipherKeys : decryptCall(blob, key)
    \/ Restart

SpecRestart == InitCipher /\ [][NextRestart]_vars

\* ------------------------------------------------------- the two mutexes
\* The calls reduced to what they do to sessionMutex and userMutex.  A
\* label names the QMutexLocker a thread is about to construct (_acq) or to
\* destroy (_rel): the one of getUserByUsername (line 553) inside
\* isUserLocked, authenticate, incrementFailedAttempts and
\* resetFailedAttempts, the one of saveUser (line 657), the one of
\* authenticate (line 131), and the one of logout, validateSession,
\* hasPermission, getUserRole, updateLastActivity and cleanExpiredSessions
\* (lines 144, 150, 178, 209, 220, 229), which is destroyed also when
\* getUserRole throws.
LockLabels ==
    {"locked_acq", "locked_rel", "fetch_acq", "fetch_rel",
     "inc_acq", "inc_rel", "incCache_acq", "incCache_rel",
     "reset_acq", "reset_rel", "resetCache_acq", "resetCache_rel",
     "session_acq", "loginCache_acq", "loginCache_rel", "session_rel",
     "registry_acq", "registry_rel"}

\* variant: getUserByUsername looks at the registry, under sessionMutex,
\* while it holds userMutex
lockOp_UserThenSession(label) ==
    [acquire |-> label \in {"locked_acq", "fetch_acq", "fetch_rel", "inc_acq",
                            "incCache_acq", "reset_acq", "resetCache_acq",
                            "session_acq", "loginCache_acq", "registry_acq"},
     mutex |-> IF label \in {"session_acq", "session_rel", "fetch_rel",
                             "registry_acq", "registry_rel"}
               THEN "sessionMutex" ELSE "userMutex"]

\* what the step at a label does: the mutex, and whether it is locked or
\* unlocked
lockOp(label) ==
    [acquire |-> label \in {"locked_acq", "fetch_acq", "inc_acq", "incCache_acq",
                            "reset_acq", "resetCache_acq", "session_acq",
                            "loginCache_acq", "registry_acq"},
     mutex |-> IF label \in {"session_acq", "session_rel",
                             "registry_acq", "registry_rel"}
               THEN "sessionMutex" ELSE "userMutex"]

\* where a call may go on after the step at a label; "idle" is its return.
\* The branches are those of authenticate (locked, not found or inactive,
\* wrong password) and of a saveUser whose query fails before line 657.
nextLabels(label) ==
    CASE label = "locked_acq" -> {"locked_rel"}
      [] label = "locked_rel" -> {"idle", "fetch_acq"}
      [] label = "fetch_acq" -> {"fetch_rel"}
      [] label = "fetch_rel" -> {"idle", "inc_acq", "reset_acq"}
      [] label = "inc_acq" -> {"inc_rel"}
      [] label = "inc_rel" -> {"idle", "incCache_acq"}
      [] label = "incCache_acq" -> {"incCache_rel"}
      [] label = "incCache_rel" -> {"idle"}
      [] label = "reset_acq" -> {"reset_rel"}
      [] label = "reset_rel" -> {"session_acq", "resetCache_acq"}
      [] label = "resetCache_acq" -> {"resetCache_rel"}
      [] label = "resetCache_rel" -> {"session_acq"}
      [] label = "session_acq" -> {"session_rel", "loginCache_acq"}
      [] label = "loginCache_acq" -> {"loginCache_rel"}
      [] label = "loginCache_rel" -> {"session_rel"}
      [] label = "session_rel" -> {"idle"}
      [] label = "registry_acq" -> {"registry_rel"}
      [] label = "registry_rel" -> {"idle"}
      [] OTHER -> {}

\* whether the thread can take its step: a lock() returns only when the
\* mutex is free (QMutex is not recursive)
CanStep(t) ==
    /\ pc[t] \in LockLabels
    /\ lockOp(pc[t]).acquire =>
          IF lockOp(pc[t]).mutex = "sessionMutex"
          THEN sessionMutex = 0 ELSE userMutex = 0

LockStep(t) ==
    /\ CanStep(t)
    /\ \E op \in {lockOp(pc[t])} :
          /\ sessionMutex' = IF op.mutex # "sessionMutex" THEN sessionMutex
                             ELSE IF op.acquire THEN t ELSE 0
          /\ userMutex' = IF op.mutex # "userMutex" THEN userMutex
                          ELSE IF op.acquire THEN t ELSE 0
    /\ \E l \in nextLabels(pc[t]) : pc' = [pc EXCEPT ![t] = l]
    /\ UNCHANGED <<now, users, userCache, activeSessions, nextSid, dbOk,
                   encryptionKey, failStreak, ret, loc, res, calls, incCalls,
                   securityEvents, dialog>>

\* a thread enters authenticate, or one of the calls on the registry
EnterLocks(t, label) ==
    /\ pc[t] = "idle"
    /\ calls < MaxCalls
    /\ calls' = calls + 1
    /\ pc' = [pc EXCEPT ![t] = label]
    /\ UNCHANGED <<now, users, userCache, activeSessions, nextSid, dbOk,
                   encryptionKey, failStreak, ret, loc, res, incCalls,
                   securityEvents, sessionMutex, userMutex, dialog>>

NextLocks ==
    \/ \E t \in Threads : EnterLocks(t, "locked_acq")
    \/ \E t \in Threads : EnterLocks(t, "registry_acq")
    \/ \E t \in Threads : LockStep(t)

\* a thread that can take a step is not held back for ever
SpecLocks ==
    Init /\ [][NextLocks]_vars /\ \A t \in Threads : WF_vars(LockStep(t))

\* ---------------------------------------------------------- createUser
\* A password is a sequence of characters; the letters, digits and other
\* characters the passwords below are made of, by what QChar::isUpper,
\* isLower, isDigit and isLetterOrNumber say of them.
MIN_PASSWORD_LENGTH == 12

UpperChars == {"A", "B"}
LowerChars == {"a", "b"}
DigitChars == {"1", "2"}
CaselessLetters == {"kana"}

isLetterOrNumber(ch) ==
    ch \in UpperChars \cup LowerChars \cup DigitChars \cup CaselessLetters

\* variant: only the length is looked at
validatePasswordStrength_LengthOnly(password) ==
    Len(password) >= MIN_PASSWORD_LENGTH

validatePasswordStrength(password) ==
    /\ Len(password) >= MIN_PASSWORD_LENGTH
    /\ \E i \in 1..Len(password) : password[i] \in UpperChars
    /\ \E i \in 1..Len(password) : password[i] \in LowerChars
    /\ \E i \in 1..Len(password) : password[i] \in DigitChars
    /\ \E i \in 1..Len(password) :
          /\ password[i] \notin UpperChars \cup LowerChars \cup DigitChars
          /\ ~isLetterOrNumber(password[i])

\* createUser(username, password, role): the store and the cache afterwards
\* and the value returned; rnd1 is what generateSalt() returns in createUser
\* and rnd2 what it returns inside hashPassword, which calls it when the
\* first salt came back empty.  The new userId, a QUuid, is written as the
\* username, as in the initial table.
createUser(cache, db, ok, username, password, role, rnd1, rnd2) ==
    LET g == getUserByUsername(cache, db, ok, username)
        hash == hashPassword(password, rnd1, rnd2)
        user == [NoUser EXCEPT !.userId = username, !.username = username,
                               !.passwordHash = hash, !.salt = rnd1,
                               !.role = role, !.isActive = TRUE,
                               !.failedLoginAttempts = 0]
        s == saveUser(g.cache, db, ok, user)
    IN  IF ~validatePasswordStrength(password)
        THEN [ok |-> FALSE, db |-> db, cache |-> cache, events |-> <<>>]
        ELSE IF g.user.username # ""
        THEN [ok |-> FALSE, db |-> db, cache |-> g.cache, events |-> <<>>]
        ELSE IF hash = <<>>
        THEN [ok |-> FALSE, db |-> db, cache |-> g.cache, events |-> <<>>]
        ELSE [ok |-> s.ok, db |-> s.db, cache |-> s.cache,
              events |-> IF s.ok THEN <<"USER_CREATED">> ELSE <<>>]

\* the passwords createUser is called with: one that meets the rule, one
\* that is a character short, one without a digit, one whose only
\* character that is no upper, lower or digit is a letter
StrongPassword == <<"A", "b", "1", "!">> \o Rep(MIN_PASSWORD_LENGTH - 4, "a")
ShortPassword == <<"A", "b", "1", "!">> \o Rep(MIN_PASSWORD_LENGTH - 5, "a")
NoDigitPassword == <<"A", "b", "!", "!">> \o Rep(MIN_PASSWORD_LENGTH - 4, "a")
NoSpecialPassword == <<"A", "b", "1", "kana">> \o Rep(MIN_PASSWORD_LENGTH - 4, "a")

CreatePasswords ==
    {StrongPassword, ShortPassword, NoDigitPassword, NoSpecialPassword}

CreateRoles == {"Administrator", "SecurityGuard"}

\* what generateSalt() returns to createUser: a salt, the null string when
\* RAND_bytes fails
CreateSalts == {ToBase64(<<"r1">>), <<>>}

createUserCall(username, password, role) ==
    /\ \E rnd1 \in CreateSalts,
          rnd2 \in IF validatePasswordStrength(password) THEN CreateSalts ELSE {<<>>} :
          \E c \in {createUser(userCache, users, dbOk, username, password,
                               role, rnd1, rnd2)} :
              /\ users' = c.db
              /\ userCache' = c.cache
              /\ ret' = [op |-> "createUser", user |-> username,
                         password |-> password, role |-> role,
                         ok |-> c.ok, events |-> c.events]
    /\ UNCHANGED <<now, activeSessions, nextSid, dbOk, encryptionKey, failStreak>>
    /\ UNCHANGED threadVars

\* users are created and give a wrong password, within one reading of the
\* clock
NextUsers ==
    \/ \E u \in Usernames, p \in CreatePasswords, r \in CreateRoles :
          createUserCall(u, p, r)
    \/ \E u \in Usernames : authenticate(u, BadPassword)

SpecUsers == Init /\ [][NextUsers]_vars

\* ------------------------------------------- the LoginDialog's handlers
\* The handlers run on the GUI thread, one at a time, and authenticate is
\* called from onLoginClicked and returns before the next handler runs.
\* Every variable but the dialog
managerVars ==
    <<now, users, userCache, activeSessions, nextSid, dbOk, encryptionKey,
      failStreak, ret, pc, loc, sessionMutex, userMutex, res, calls,
      incCalls, securityEvents>>

\* a wrong password long enough for the dialog to pass it on
LongBadPassword == <<"guess-again">>

\* the texts typed into the two edits
DialogUsernames == {"alice", ""}
DialogPasswords == {GoodPassword, LongBadPassword, BadPassword}

\* QString::length() of the texts typed
passwordLength(password) ==
    CASE password = GoodPassword -> 16
      [] password = LongBadPassword -> 11
      [] password = BadPassword -> 5
      [] OTHER -> Len(password)

nameLength(username) ==
    CASE username = "" -> 0
      [] username = "alice" -> 5
      [] username = "bob" -> 3
      [] OTHER -> 7

isValidInput(d) ==
    /\ d.username # ""
    /\ passwordLength(d.password) >= LoginDialog_MIN_PASSWORD_LENGTH
    /\ nameLength(d.username) <= MaxUsernameLength

validateInput(d) ==
    [d EXCEPT !.loginEnabled = isValidInput(d) /\ ~d.isLocked]

\* textChanged of usernameEdit
onUsernameChanged(username) ==
    /\ dialog.result = "open"
    /\ dialog.inputEnabled
    /\ username # dialog.username
    /\ dialog' = validateInput([dialog EXCEPT !.username = username])
    /\ UNCHANGED managerVars

\* textChanged of passwordEdit
onPasswordChanged(password) ==
    /\ dialog.result = "open"
    /\ dialog.inputEnabled
    /\ password # dialog.password
    /\ dialog' = validateInput([dialog EXCEPT !.password = password])
    /\ UNCHANGED managerVars

\* the inactivity timer fires: the password is cleared
clearSensitiveData ==
    /\ dialog.result = "open"
    /\ dialog' = validateInput([dialog EXCEPT !.password = <<>>])
    /\ UNCHANGED managerVars

\* the branch of onLoginClicked for an empty session id; clearing the
\* password edit runs onPasswordChanged, which disables the button
loginFailed(d) ==
    LET n == d.failedAttempts + 1 IN
    IF n >= MAX_FAILED_ATTEMPTS
    THEN [d EXCEPT !.failedAttempts = n,
                   !.isLocked = TRUE,
                   !.lockoutTime = LOCKOUT_DURATION,
                   !.lockoutTimerActive = TRUE,
                   !.ticks = 0,
                   !.inputEnabled = FALSE]
    ELSE validateInput([d EXCEPT !.failedAttempts = n, !.password = <<>>])

\* the branch of onLoginClicked for a session id: the role is read and the
\* dialog is accepted
loginSucceeded(d, sessions) ==
    [d EXCEPT !.userRole = getUserRole(sessions, d.sessionId),
              !.result = "accepted"]

\* onLoginClicked from the call of authenticate on; the button is enabled
\* again on every path
loginAttempt ==
    /\ calls < MaxCalls
    /\ calls' = calls + 1
    /\ authenticateState(dialog.username, dialog.password, FALSE)
    /\ \E d \in {[dialog EXCEPT !.sessionId = ret'.sid, !.box = FALSE]} :
          dialog' = [(IF d.sessionId # NoSessionId
                      THEN loginSucceeded(d, activeSessions')
                      ELSE loginFailed(d))
                       EXCEPT !.loginEnabled = TRUE]
    /\ UNCHANGED <<pc, loc, sessionMutex, userMutex, res, incCalls, securityEvents>>

\* variant: a locked dialog still passes the click on
onLoginClicked_NoLockCheck ==
    /\ dialog.result = "open"
    /\ dialog.loginEnabled \/ dialog.inputEnabled
    /\ IF ~isValidInput(dialog)
       THEN dialog' = [dialog EXCEPT !.box = FALSE] /\ UNCHANGED managerVars
       ELSE loginAttempt

\* clicked of loginButton (when it is enabled), returnPressed of
\* passwordEdit (when that is enabled)
onLoginClicked ==
    /\ dialog.result = "open"
    /\ dialog.loginEnabled \/ dialog.inputEnabled
    /\ IF ~isValidInput(dialog)
       THEN dialog' = [dialog EXCEPT !.box = FALSE] /\ UNCHANGED managerVars
       ELSE IF dialog.isLocked
       THEN dialog' = [dialog EXCEPT !.box = TRUE] /\ UNCHANGED managerVars
       ELSE loginAttempt

onCancelClicked ==
    /\ dialog.result = "open"
    /\ dialog' = [dialog EXCEPT !.result = "rejected"]
    /\ UNCHANGED managerVars

\* variant: the dialog is unlocked with one second left
lockoutTimerTick_Early(d) ==
    LET left == d.lockoutTime - 1 IN
    IF left <= 1
    THEN validateInput([d EXCEPT !.lockoutTime = left,
                                 !.ticks = @ + 1,
                                 !.lockoutTimerActive = FALSE,
                                 !.isLocked = FALSE,
                                 !.failedAttempts = 0,
                                 !.inputEnabled = TRUE])
    ELSE [d EXCEPT !.lockoutTime = left, !.ticks = @ + 1]

\* the body of onLockoutTimerTick
lockoutTimerTick(d) ==
    LET left == d.lockoutTime - 1 IN
    IF left <= 0
    THEN validateInput([d EXCEPT !.lockoutTime = left,
                                 !.ticks = @ + 1,
                                 !.lockoutTimerActive = FALSE,
                                 !.isLocked = FALSE,
                                 !.failedAttempts = 0,
                                 !.inputEnabled = TRUE])
    ELSE [d EXCEPT !.lockoutTime = left, !.ticks = @ + 1]

\* timeout of lockoutTimer, which fires while the timer is started
onLockoutTimerTick ==
    /\ dialog.lockoutTimerActive
    /\ dialog' = lockoutTimerTick(dialog)
    /\ UNCHANGED managerVars

\* one dialog is used, within one reading of the clock
NextDialog ==
    \/ \E u \in DialogUsernames : onUsernameChanged(u)
    \/ \E p \in DialogPasswords : onPasswordChanged(p)
    \/ clearSensitiveData
    \/ onLoginClicked
    \/ onCancelClicked
    \/ onLockoutTimerTick

\* a started lockoutTimer keeps firing
SpecDialog == Init /\ [][NextDialog]_vars /\ WF_vars(onLockoutTimerTick)

\* ================================================================ claims
SessionTimeout == SESSION_TIMEOUT_MINUTES * 60

\* the password verifies against the stored hash and salt of username
PasswordVerifies(username, password) ==
    \A rnd \in RandSalts :
        verifyPassword(password, users[username].passwordHash,
                       users[username].salt, rnd)

\* the step is the call authenticate(u, p), logout(s), validateSession(s);
\* the result is looked at first, which the call determines
AuthStep(u, p) ==
    ret'.op = "authenticate" /\ ret'.user = u /\ authenticate(u, p)

TrackedAuthStep(u, p) ==
    ret'.op = "authenticate" /\ ret'.user = u /\ authenticateCall(u, p, TRUE)

LogoutStep(s) == ret'.op = "logout" /\ logout(s)

ValidateStep(s) == ret'.op = "validateSession" /\ validateSession(s)

\* C1: after an authenticate call that returned a session id, the stored
\* user of that call has failedLoginAttempts = 0 and no lockoutUntil.
C1_SuccessResetsCounter ==
    (ret.op = "authenticate" /\ ret.ok) =>
        /\ users[ret.user].failedLoginAttempts = 0
        /\ users[ret.user].lockoutUntil = NullTime

\* C2: once MAX_LOGIN_ATTEMPTS authenticate calls in a row have failed for
\* an existing active user, the stored user carries a lockoutUntil with the
\* counter at the threshold, and every authenticate call for that user made
\* while now < lockoutUntil returns the empty session id, whatever the
\* password.
C2_LockedAfterMaxFailures ==
    [][\A u \in Usernames, p \in Passwords :
          TrackedAuthStep(u, p) =>
            /\ (failStreak'[u] >= MAX_LOGIN_ATTEMPTS) =>
                  /\ users'[u].failedLoginAttempts >= MAX_LOGIN_ATTEMPTS
                  /\ users'[u].lockoutUntil # NullTime
            /\ (/\ failStreak[u] >= MAX_LOGIN_ATTEMPTS
                /\ now < users[u].lockoutUntil) =>
                  /\ ret'.sid = NoSessionId
                  /\ ~ret'.ok]_vars

C2_Witness ==
    /\ ret.op = "authenticate" /\ ret.user = "alice" /\ ~ret.ok
    /\ ~ret.verified
    /\ failStreak["alice"] >= MAX_LOGIN_ATTEMPTS
    /\ now < users["alice"].lockoutUntil

\* C3: for an active user whose counter is at the threshold and whose
\* lockoutUntil is set, an authenticate call with the correct password at a
\* time now >= lockoutUntil returns a session id that is in the registry.
C3_LoginAfterLockoutElapsed ==
    [][\A u \in Usernames, p \in Passwords :
          (/\ ActiveUser(users, u)
           /\ users[u].failedLoginAttempts >= MAX_LOGIN_ATTEMPTS
           /\ users[u].lockoutUntil # NullTime
           /\ now >= users[u].lockoutUntil
           /\ PasswordVerifies(u, p)
           /\ AuthStep(u, p)) =>
            /\ ret'.ok
            /\ ret'.sid # NoSessionId
            /\ ret'.sid \in DOMAIN activeSessions'
            /\ activeSessions'[ret'.sid].userId = users[u].userId]_vars

C3_Witness ==
    /\ ret.op = "authenticate" /\ ret.ok /\ ret.user = "alice"
    /\ ret.sid \in DOMAIN activeSessions
    /\ activeSessions[ret.sid].lastActivity = now
    /\ users["alice"].failedLoginAttempts >= MAX_LOGIN_ATTEMPTS
    /\ users["alice"].lockoutUntil # NullTime
    /\ now >= users["alice"].lockoutUntil

\* C4: a session enters the registry only through an authenticate call for
\* a user that exists, is active, is not locked and whose password
\* verifies, and that call returns the new id; each authenticate call that
\* does not meet these conditions returns the empty id and leaves the
\* registry as it was.
AuthConditions(u, p) ==
    /\ ActiveUser(users, u)
    /\ ~userLocked(users[u], now)
    /\ PasswordVerifies(u, p)

C4_SessionOnlyOnSuccess ==
    [][/\ \A s \in SessionIds :
            (s \notin DOMAIN activeSessions /\ s \in DOMAIN activeSessions') =>
                \E u \in Usernames, p \in Passwords :
                    AuthStep(u, p) /\ AuthConditions(u, p) /\ ret'.sid = s
       /\ \A u \in Usernames, p \in Passwords :
            AuthStep(u, p) =>
                /\ (ret'.sid # NoSessionId) <=> AuthConditions(u, p)
                /\ (ret'.sid = NoSessionId) => activeSessions' = activeSessions
                /\ (ret'.sid # NoSessionId) =>
                      /\ ret'.sid \notin DOMAIN activeSessions
                      /\ DOMAIN activeSessions' = DOMAIN activeSessions \cup {ret'.sid}]_vars

C4_Witness ==
    /\ ret.op = "authenticate" /\ ~ret.ok /\ ret.user = "bob"
    /\ ret.sid = NoSessionId
    /\ activeSessions # EmptyMap

\* C5: when authenticate calls with a wrong password for alice (existing,
\* active) run at the same time, each call that finds her unlocked adds
\* one to the stored counter in every interleaving: once all calls have
\* returned, the stored failedLoginAttempts is the number of calls that
\* went through incrementFailedAttempts.
C5_NoLostIncrement ==
    (\A t \in Threads : pc[t] = "idle") =>
        users["alice"].failedLoginAttempts = incCalls

\* C6: hasPermission is false for every resource and action when the
\* session id is absent from the registry or names a session with
\* lastActivity + SESSION_TIMEOUT before now.
C6_NoPermissionWhenExpired ==
    \A s \in SessionIds, r \in Resources, a \in PermActions :
        (s \notin DOMAIN activeSessions
           \/ activeSessions[s].lastActivity + SessionTimeout < now)
        => ~hasPermission(activeSessions, s, r, a)

\* C7: getUserRole reports the invalid session, never a role, when the
\* session id is absent from the registry or names a session with
\* lastActivity + SESSION_TIMEOUT before now.
C7_NoRoleWhenExpired ==
    \A s \in SessionIds :
        (s \notin DOMAIN activeSessions
           \/ activeSessions[s].lastActivity + SessionTimeout < now)
        => getUserRole(activeSessions, s) = "InvalidSession"


\* C8: validateSession on a session with lastActivity + SESSION_TIMEOUT
\* before now returns false and removes the session; a removed id never
\* returns to the registry, so validateSession, hasPermission and
\* getUserRole treat it as absent from then on.
C8_ExpiredSessionEvicted ==
    [][/\ \A s \in SessionIds :
            (/\ s \in DOMAIN activeSessions
             /\ activeSessions[s].lastActivity + SessionTimeout < now
             /\ ValidateStep(s)) =>
                /\ ~ret'.ok
                /\ s \notin DOMAIN activeSessions'
                /\ getUserRole(activeSessions', s) = "InvalidSession"
                /\ \A r \in Resources, a \in PermActions :
                      ~hasPermission(activeSessions', s, r, a)
       /\ \A s \in SessionIds :
            (s <= nextSid /\ s \notin DOMAIN activeSessions) =>
                /\ s \notin DOMAIN activeSessions'
                /\ ValidateStep(s) => ~ret'.ok]_vars

C8_Witness ==
    /\ ret.op = "validateSession" /\ ~ret.ok /\ ret.evicted
    /\ \E s \in SessionIds : s <= nextSid /\ s \notin DOMAIN activeSessions
    /\ activeSessions # EmptyMap

\* C9: a validateSession call that returns true sets the lastActivity of
\* that session to the current time and changes nothing else in the
\* registry; validateSession and the sweep remove a session only when its
\* lastActivity + SESSION_TIMEOUT is before now, and lastActivity is never
\* ahead of now, so a session validated within the last SESSION_TIMEOUT is
\* not removed by them.
C9_ValidationRefreshes ==
    [][/\ \A s \in SessionIds :
            (ValidateStep(s) /\ ret'.ok) =>
                /\ s \in DOMAIN activeSessions
                /\ DOMAIN activeSessions' = DOMAIN activeSessions
                /\ activeSessions'[s].lastActivity = now
                /\ \A x \in DOMAIN activeSessions :
                      /\ x # s => activeSessions'[x] = activeSessions[x]
                      /\ \A f \in DOMAIN activeSessions[x] :
                            f # "lastActivity" =>
                                activeSessions'[x][f] = activeSessions[x][f]
       /\ \A s \in DOMAIN activeSessions :
            (/\ s \notin DOMAIN activeSessions'
             /\ (cleanExpiredSessions \/ \E x \in SessionIds : ValidateStep(x))) =>
                activeSessions[s].lastActivity + SessionTimeout < now
       /\ \A s \in DOMAIN activeSessions' :
            activeSessions'[s].lastActivity <= now']_vars

C9_Witness ==
    /\ ret.op = "validateSession" /\ ret.ok
    /\ \E s \in DOMAIN activeSessions : activeSessions[s].lastActivity = now
    /\ users["alice"].lastLogin + SessionTimeout = now
    /\ \E x \in DOMAIN activeSessions : activeSessions[x].lastActivity < now

\* C10: logout returns true exactly when the id was in the registry,
\* removes it whether expired or not and leaves every other session as it
\* was; logout and validateSession of an id that is not in the registry,
\* as the id just logged out is, return false.
C10_Logout ==
    [][/\ \A s \in SessionIds :
            LogoutStep(s) =>
                /\ ret'.ok <=> s \in DOMAIN activeSessions
                /\ DOMAIN activeSessions' = DOMAIN activeSessions \ {s}
                /\ \A x \in DOMAIN activeSessions' :
                      activeSessions'[x] = activeSessions[x]
       /\ \A s \in SessionIds :
            (s \notin DOMAIN activeSessions /\ ValidateStep(s)) => ~ret'.ok]_vars

C10_Witness ==
    /\ ret.op = "logout" /\ ret.ok
    /\ \E s \in SessionIds : s <= nextSid /\ s \notin DOMAIN activeSessions
    /\ \E x \in DOMAIN activeSessions :
          activeSessions[x].lastActivity + SessionTimeout < now

\* C11: every authenticate call records exactly one security event, also
\* when calls interleave: the step in which a call returns adds one row, of
\* type AUTH_SUCCESS when it returns a session id and AUTH_FAILED when it
\* returns the empty id, no other step adds or removes a row, and the table
\* holds one row for each call that has returned.
Returned == calls - Cardinality({t \in Threads : pc[t] # "idle"})

EventOf(result) == IF result.ok THEN "AUTH_SUCCESS" ELSE "AUTH_FAILED"

C11_OneEventPerCall ==
    [][/\ \A t \in Threads :
            (pc[t] # "idle" /\ pc'[t] = "idle") =>
                /\ res'[t].events = <<EventOf(res'[t])>>
                /\ securityEvents' =
                     [securityEvents EXCEPT ![EventOf(res'[t])] = @ + 1]
       /\ (\A t \in Threads : pc[t] = "idle" \/ pc'[t] # "idle") =>
              securityEvents' = securityEvents
       /\ securityEvents'["AUTH_FAILED"] + securityEvents'["AUTH_SUCCESS"]
             = Returned']_vars

\* two calls for the username nobody has seen have both returned failure
\* and the table holds two AUTH_FAILED rows
C11_Witness ==
    /\ \A t \in Threads : pc[t] = "idle"
    /\ calls = 2
    /\ \E t1, t2 \in Threads :
          /\ t1 # t2
          /\ res[t1].op = "authenticate" /\ res[t1].user = "mallory" /\ ~res[t1].ok
          /\ res[t2].op = "authenticate" /\ res[t2].user = "mallory" /\ ~res[t2].ok
    /\ securityEvents = [NoEvents EXCEPT !["AUTH_FAILED"] = 2]

\* C12: a logout that removed a session from the registry has recorded a
\* security event.
C12_LogoutRecordsEvent ==
    (ret.op = "logout" /\ ret.ok) => ret.events # <<>>

\* C13: with the random source working, decrypt of what encrypt returned
\* for a text, under the same key argument (also the omitted one, which
\* stands for the default key), returns that text.
C13_RoundTrip ==
    [][(/\ ret.op = "encrypt" /\ ret.out # <<>>
        /\ ret'.op = "decrypt"
        /\ ret'.data = ret.out /\ ret'.key = ret.key) =>
            ret'.out = ret.data]_vars

\* C14: decrypt of a blob that decodes to fewer than IvLen bytes returns
\* the null string and does not run the cipher, whatever the key.
C14_ShortBlobFails ==
    (ret.op = "decrypt" /\ Len(FromBase64(ret.data)) < IvLen) =>
        (ret.out = <<>> /\ ~ret.cipherRun)

C14_Witness ==
    /\ ret.op = "decrypt"
    /\ Len(FromBase64(ret.data)) = IvLen - 1
    /\ ret.key = KeyB
    /\ ret.out = <<>> /\ ~ret.cipherRun

\* C15: verifyPassword of a password, the hash hashPassword returned for
\* that password and a salt, and that salt, returns true; a salt is a
\* string that is not empty, the empty one being the omitted salt of C16.
C15_VerifyAcceptsOwnHash ==
    [][(/\ ret.op = "hashPassword" /\ ret.salt # <<>>
        /\ ret'.op = "verifyPassword"
        /\ ret'.password = ret.password
        /\ ret'.hash = ret.out /\ ret'.salt = ret.salt) =>
            ret'.out]_vars

C15_Witness ==
    /\ ret.op = "verifyPassword" /\ ret.out
    /\ ret.password = BadPassword /\ ret.salt = SaltB
    /\ ret.hash = hashPassword(BadPassword, SaltB, <<>>)

\* C16: hashPassword returns the hash alone, so the salt its caller is left
\* with is the one passed in: after a call with the salt omitted,
\* verifyPassword of the same password with the returned hash and that
\* salt accepts.
C16_OmittedSaltVerifies ==
    [][(/\ ret.op = "hashPassword" /\ ret.salt = <<>>
        /\ ret'.op = "verifyPassword"
        /\ ret'.password = ret.password
        /\ ret'.hash = ret.out /\ ret'.salt = ret.salt) =>
            ret'.out]_vars

\* C17: authenticate returns the same value, the empty session id, for an
\* unknown username, an inactive user, a locked user and a wrong password.
UnknownUser(u) == u \notin DOMAIN users

InactiveUser(u) == u \in DOMAIN users /\ ~users[u].isActive

LockedUser(u) ==
    /\ u \in DOMAIN users
    /\ users[u].failedLoginAttempts >= MAX_LOGIN_ATTEMPTS
    /\ now < users[u].lockoutUntil

WrongPassword(u, p) == u \in DOMAIN users /\ ~PasswordVerifies(u, p)

C17_FailuresLookAlike ==
    [][\A u \in Usernames, p \in Passwords :
          (/\ UnknownUser(u) \/ InactiveUser(u) \/ LockedUser(u) \/ WrongPassword(u, p)
           /\ AuthStep(u, p)) =>
              ret'.sid = NoSessionId]_vars

\* a call for a name nobody has returned the empty id, at a time when
\* alice is locked and bob inactive
C17_Witness ==
    /\ ret.op = "authenticate" /\ ret.user = "mallory" /\ ret.sid = NoSessionId
    /\ UnknownUser("mallory") /\ InactiveUser("bob") /\ LockedUser("alice")

\* C18: no key or session token that was not drawn from the secure random
\* source is in use: the encryption key the constructor ends with is not
\* empty, and a session that authenticate has put into the registry has an
\* id made by RAND_bytes.
SessionInserted(t) == pc[t] \in {"loginSave", "loginCache", "loginReturn"}

C18_NoWeakMaterial ==
    /\ encryptionKey # <<>>
    /\ \A t \in Threads : SessionInserted(t) => loc[t].idSource = "RAND_bytes"

\* C19: cleanExpiredSessions removes exactly the sessions with lastActivity +
\* SESSION_TIMEOUT before now and leaves every other session, the one at
\* the limit too, as it was; validateSession removes the session it is
\* asked about under that same condition.
Expired(s) == activeSessions[s].lastActivity + SessionTimeout < now

C19_SweepAndValidateAgree ==
    [][/\ cleanExpiredSessions =>
            /\ DOMAIN activeSessions' =
                  {s \in DOMAIN activeSessions : ~Expired(s)}
            /\ \A s \in DOMAIN activeSessions' :
                  activeSessions'[s] = activeSessions[s]
       /\ \A s \in DOMAIN activeSessions :
            ValidateStep(s) => (s \notin DOMAIN activeSessions' <=> Expired(s))]_vars

\* nothing has returned a value since the second login, at TickSecs, so it
\* is the sweep that has removed the first session, of time 0; the second,
\* at the limit, is still there
C19_Witness ==
    /\ ret.op = "authenticate" /\ ret.sid = 2
    /\ users["alice"].lastLogin = TickSecs
    /\ 1 \notin DOMAIN activeSessions
    /\ 2 \in DOMAIN activeSessions
    /\ activeSessions[2].lastActivity + SessionTimeout = now

\* C20: an authenticate call for a locked account (failedLoginAttempts >=
\* MAX_LOGIN_ATTEMPTS and now < lockoutUntil) records AUTH_FAILED and
\* returns the empty id without the hasher being called; the stored user
\* and the registry stay as they were.
C20_LockedBeforeHashing ==
    [][\A u \in Usernames, p \in Passwords :
          (LockedUser(u) /\ AuthStep(u, p)) =>
              /\ ret'.events = <<"AUTH_FAILED">>
              /\ ~ret'.ok
              /\ ~ret'.verified
              /\ users' = users
              /\ activeSessions' = activeSessions]_vars

C20_Witness ==
    /\ ret.op = "authenticate" /\ ret.user = "alice"
    /\ ret.events = <<"AUTH_FAILED">> /\ ~ret.verified
    /\ LockedUser("alice")
    /\ users["alice"].lockoutUntil = now + TickSecs

\* C21: an authenticate call for a username that is not in the users table,
\* or for a user with isActive = false, records AUTH_FAILED and returns the
\* empty id without the hasher being called, and the users table stays as
\* it was: no user is added and every failedLoginAttempts and lockoutUntil
\* is unchanged.
C21_UnknownOrInactiveLeavesUsers ==
    [][\A u \in Usernames, p \in Passwords :
          (/\ UnknownUser(u) \/ InactiveUser(u)
           /\ TrackedAuthStep(u, p)) =>
              /\ ret'.events = <<"AUTH_FAILED">>
              /\ ret'.sid = NoSessionId /\ ~ret'.ok
              /\ ~ret'.verified
              /\ DOMAIN users' = DOMAIN users
              /\ users' = users]_vars

\* bob, inactive, has been refused without verification at a time when
\* alice has failures on record, and nobody has been added for mallory
C21_Witness ==
    /\ ret.op = "authenticate" /\ ret.user = "bob"
    /\ ret.events = <<"AUTH_FAILED">> /\ ~ret.verified
    /\ InactiveUser("bob") /\ UnknownUser("mallory")
    /\ users["bob"].failedLoginAttempts = 0
    /\ users["bob"].lockoutUntil = NullTime
    /\ users["alice"].failedLoginAttempts = 2

\* C22: every stored account that is not locked (isUserLocked is false for
\* it) has failedLoginAttempts below MAX_LOGIN_ATTEMPTS; once now has
\* reached lockoutUntil the account is unlocked, with its lockoutUntil
\* cleared.
C22_UnlockedBelowThreshold ==
    \A u \in DOMAIN users :
        ~userLocked(users[u], now) =>
            /\ users[u].failedLoginAttempts < MAX_LOGIN_ATTEMPTS
            /\ users[u].lockoutUntil = NullTime

\* C23: a stored user with a lockoutUntil has failedLoginAttempts >=
\* MAX_LOGIN_ATTEMPTS, and no counter is negative; a write to the users
\* table that gives a user a lockoutUntil it did not have is the save of
\* incrementFailedAttempts in a call for that user, with the counter at the
\* threshold or beyond and the value now + LOGIN_LOCKOUT_MINUTES * 60.
LockoutConsistent(db) ==
    \A u \in DOMAIN db :
        /\ db[u].failedLoginAttempts >= 0
        /\ db[u].lockoutUntil # NullTime =>
              db[u].failedLoginAttempts >= MAX_LOGIN_ATTEMPTS

C23_LockoutWrittenByFailure ==
    [][/\ LockoutConsistent(users')
       /\ \A u \in DOMAIN users' :
            (/\ users'[u].lockoutUntil # NullTime
             /\ u \in DOMAIN users => users'[u].lockoutUntil # users[u].lockoutUntil) =>
                /\ \E t \in Threads : pc[t] = "incSave" /\ loc[t].username = u
                /\ users'[u].failedLoginAttempts >= MAX_LOGIN_ATTEMPTS
                /\ users'[u].lockoutUntil = now + LOGIN_LOCKOUT_MINUTES * 60]_vars

\* C24: a thread that is computing the password hash inside authenticate
\* holds no shared lock: sessionMutex is held only by a thread that has
\* verified the password and is between the insertion of its session and
\* its return, and userMutex is taken and released inside single accesses
\* to the cache, none of which is the verification.
HoldsSessionMutex(t) == sessionMutex = t

C24_NoLockWhileHashing ==
    \A t \in Threads :
        /\ pc[t] = "verifyPassword" => ~HoldsSessionMutex(t)
        /\ HoldsSessionMutex(t) =>
              /\ pc[t] \in {"loginSave", "loginCache", "loginReturn"}
              /\ loc[t].verified
              /\ loc[t].sid \in DOMAIN activeSessions

\* one thread is at the verification while another holds sessionMutex
C24_Witness ==
    \E t1, t2 \in Threads :
        /\ pc[t1] = "verifyPassword" /\ ~HoldsSessionMutex(t1)
        /\ HoldsSessionMutex(t2) /\ pc[t2] = "loginSave"

\* C25: in a successful authenticate call the updated lastLogin is stored
\* before the session is created: whenever the session of a call that has
\* not yet returned is in the registry, the stored user of that call
\* carries the lastLogin of the call.
C25_LastLoginBeforeSession ==
    \A t \in Threads :
        (pc[t] # "idle" /\ loc[t].sid \in DOMAIN activeSessions) =>
            users[loc[t].username].lastLogin = loc[t].at

\* C26: for a session in the registry, hasPermission is decided by the role
\* stored in the session and by (resource, action): SuperAdmin is granted
\* everything, Administrator everything but resource "system_config",
\* Receptionist only "visitor" with register, checkin or checkout,
\* SecurityGuard only ("visitor", "view"); what a Receptionist or a
\* SecurityGuard session is granted, an Administrator and a SuperAdmin
\* session are granted too.
Granted(role, resource, action) ==
    \/ role = "SuperAdmin"
    \/ role = "Administrator" /\ resource # "system_config"
    \/ /\ role = "Receptionist" /\ resource = "visitor"
       /\ action \in {"register", "checkin", "checkout"}
    \/ role = "SecurityGuard" /\ resource = "visitor" /\ action = "view"

C26_PermissionByRole ==
    /\ (ret.op = "hasPermission" /\ ret.sid \in DOMAIN activeSessions) =>
          ret.out = Granted(activeSessions[ret.sid].role, ret.resource, ret.action)
    /\ \A s1, s2 \in DOMAIN activeSessions, r \in Resources, a \in PermActions :
          (/\ activeSessions[s1].role \in {"Receptionist", "SecurityGuard"}
           /\ activeSessions[s2].role \in {"Administrator", "SuperAdmin"}
           /\ hasPermission(activeSessions, s1, r, a)) =>
              hasPermission(activeSessions, s2, r, a)

\* a Receptionist session has been granted the check-in of a visitor while
\* an Administrator session is in the registry
C26_Witness ==
    /\ ret.op = "hasPermission" /\ ret.out
    /\ ret.sid \in DOMAIN activeSessions
    /\ activeSessions[ret.sid].role = "Receptionist"
    /\ ret.resource = "visitor" /\ ret.action = "checkin"
    /\ \E s \in DOMAIN activeSessions : activeSessions[s].role = "Administrator"

\* C27: the encryption key is generated at most once: no step, a restart
\* included, changes the key in use, which stays the one the first start
\* ended with.
C27_KeyGeneratedOnce ==
    [][encryptionKey' = encryptionKey]_vars

\* C28: a session that has expired (lastActivity + SESSION_TIMEOUT before
\* now) is never valid again: no step takes an expired session of the
\* registry to a state in which validateSession would return true for it,
\* that is, in which it is in the registry and not expired.
SessionLapsed(s) == s \in DOMAIN activeSessions /\ Expired(s)

SessionValid(s) == s \in DOMAIN activeSessions /\ ~Expired(s)

C28_ExpiredStaysInvalid ==
    [][\A s \in SessionIds : SessionLapsed(s) => ~(SessionValid(s))']_vars

\* C29: with alice's counter starting at 0 and calls with a wrong password
\* running at the same time, at most MAX_LOGIN_ATTEMPTS verifications are
\* made before her account is locked, and no call verifies a password for
\* her while the stored account is locked.
Verifications ==
    incCalls + Cardinality({t \in Threads : pc[t] \in {"incFetch", "incSave", "incCache"}})

C29_BoundedVerifications ==
    [][/\ users'["alice"].failedLoginAttempts < MAX_LOGIN_ATTEMPTS =>
             Verifications' <= MAX_LOGIN_ATTEMPTS
       /\ \A t \in Threads :
            (pc[t] = "verifyPassword" /\ pc'[t] # "verifyPassword") =>
                ~LockedUser(loc[t].username)]_vars

\* C30: an authenticate call for an account that is locked leaves the
\* failedLoginAttempts and the lockoutUntil of that account as they were,
\* whatever the password: a rejected attempt neither counts nor extends
\* the lockout.
C30_RejectedAttemptsNotCounted ==
    [][\A u \in Usernames, p \in Passwords :
          (LockedUser(u) /\ TrackedAuthStep(u, p)) =>
              /\ users'[u].failedLoginAttempts = users[u].failedLoginAttempts
              /\ users'[u].lockoutUntil = users[u].lockoutUntil]_vars

\* alice was locked by her fifth failure at time TickSecs; a call made for
\* her after that, in the same reading of the clock, was rejected, and the
\* counter and the end of the lockout are those of the fifth failure
C30_Witness ==
    /\ ret.op = "authenticate" /\ ret.user = "alice" /\ ~ret.ok /\ ~ret.verified
    /\ now = TickSecs
    /\ users["alice"].failedLoginAttempts = MAX_LOGIN_ATTEMPTS
    /\ users["alice"].lockoutUntil = TickSecs + LOGIN_LOCKOUT_MINUTES * 60

\* C31: concurrent authenticate, logout, validateSession, hasPermission,
\* getUserRole, updateLastActivity and cleanExpiredSessions calls never
\* deadlock: while a call is under way some thread can take a step; the
\* holder of userMutex is never about to lock a mutex, so userMutex is
\* locked with sessionMutex or nothing held and never the other way
\* round; a thread that is not in a call holds no mutex; and a mutex that
\* is held is released in the end.
HoldsUserMutex(t) == userMutex = t

LockOrder ==
    /\ (\E t \in Threads : pc[t] # "idle") => \E t \in Threads : CanStep(t)
    /\ \A t \in Threads :
          /\ HoldsUserMutex(t) => ~lockOp(pc[t]).acquire
          /\ pc[t] = "idle" => ~HoldsUserMutex(t) /\ ~HoldsSessionMutex(t)

C31_NoDeadlock ==
    /\ []LockOrder
    /\ \A t \in Threads :
          /\ HoldsSessionMutex(t) ~> ~HoldsSessionMutex(t)
          /\ HoldsUserMutex(t) ~> ~HoldsUserMutex(t)

\* one thread holds sessionMutex and waits for userMutex, which the other
\* holds
C31_Witness ==
    \E t1, t2 \in Threads :
        /\ HoldsSessionMutex(t1) /\ pc[t1] = "loginCache_acq"
        /\ HoldsUserMutex(t2) /\ ~CanStep(t1) /\ CanStep(t2)

\* C32: whenever no saveUser call is under way (here: every thread is
\* outside authenticate), the userCache entry of a username is the row of
\* that username in the users table, also after calls that saved the same
\* user at the same time.
C32_CacheMatchesStore ==
    (\A t \in Threads : pc[t] = "idle") =>
        \A u \in DOMAIN userCache : u \in DOMAIN users /\ userCache[u] = users[u]

\* C33: a successful authenticate adds one session under a new id and
\* leaves every session of the registry as it was, so a user may hold
\* several sessions; logout and validateSession leave every session but the
\* one they are called with as it was, and the sweep leaves every session
\* that is not expired as it was.
Untouched(ids) ==
    \A x \in ids : x \in DOMAIN activeSessions' /\ activeSessions'[x] = activeSessions[x]

C33_SessionsIndependent ==
    [][/\ (AuthStep("alice", GoodPassword) /\ ret'.ok) =>
             /\ ret'.sid \notin DOMAIN activeSessions
             /\ DOMAIN activeSessions' = DOMAIN activeSessions \cup {ret'.sid}
             /\ Untouched(DOMAIN activeSessions)
       /\ \A s \in SessionIds :
             (LogoutStep(s) \/ ValidateStep(s)) =>
                 Untouched(DOMAIN activeSessions \ {s})
       /\ cleanExpiredSessions =>
             Untouched({x \in DOMAIN activeSessions : ~Expired(x)})]_vars

\* alice held two sessions; the first has been logged out and the second
\* is in the registry as her second login made it
C33_Witness ==
    /\ ret.op = "logout" /\ ret.ok
    /\ nextSid = 2
    /\ DOMAIN activeSessions = {2}
    /\ activeSessions[2] = newSession(users["alice"], 2, users["alice"].lastLogin)

\* C34: createUser returns false and leaves the users table as it was when
\* the password is too short or lacks a digit or a special character, or
\* when the username is taken; when it returns true it has added that one
\* user, with failedLoginAttempts = 0, isActive = true and no lockoutUntil,
\* and left the others as they were; every row is the row of its own
\* username, and no step removes a user.
WeakPasswords == {ShortPassword, NoDigitPassword, NoSpecialPassword}

\* the step is the call createUser(u, p, r): createUser alone leaves its
\* name and its arguments in ret
CreateStep(u, p, r) ==
    /\ ret'.op = "createUser"
    /\ ret'.user = u /\ ret'.password = p /\ ret'.role = r

C34_CreateUser ==
    [][/\ \A u \in Usernames, p \in CreatePasswords, r \in CreateRoles :
            CreateStep(u, p, r) =>
                /\ (p \in WeakPasswords \/ u \in DOMAIN users) =>
                      ~ret'.ok /\ users' = users
                /\ ret'.ok =>
                      /\ u \notin DOMAIN users
                      /\ DOMAIN users' = DOMAIN users \cup {u}
                      /\ \A x \in DOMAIN users : users'[x] = users[x]
                      /\ users'[u].failedLoginAttempts = 0
                      /\ users'[u].isActive
                      /\ users'[u].lockoutUntil = NullTime
                      /\ users'[u].role = r
       /\ DOMAIN users \subseteq DOMAIN users'
       /\ \A x \in DOMAIN users' : users'[x].username = x]_vars

\* mallory has been created, and a second createUser for her, with a
\* password that meets the rule, has been refused
C34_Witness ==
    /\ ret.op = "createUser" /\ ret.user = "mallory" /\ ~ret.ok
    /\ DOMAIN users = {"alice", "bob", "mallory"}
    /\ users["mallory"].isActive
    /\ users["mallory"].role = "SecurityGuard"
    /\ users["mallory"].failedLoginAttempts = 1

\* C35: in LoginDialog a failed login adds one to failedAttempts, the
\* dialog is locked exactly when failedAttempts has reached
\* MAX_FAILED_ATTEMPTS (3), and while the dialog is locked no step, a click
\* on Login included, calls SecurityManager::authenticate or changes what
\* the SecurityManager holds.
C35_LockedDialogNoAuthenticate ==
    /\ [](dialog.isLocked <=> dialog.failedAttempts >= MAX_FAILED_ATTEMPTS)
    /\ [][(calls' # calls /\ ret'.sid = NoSessionId)
             => dialog'.failedAttempts = dialog.failedAttempts + 1]_vars
    /\ [][dialog.isLocked
             => /\ calls' = calls
                /\ UNCHANGED <<users, userCache, activeSessions, nextSid, ret>>]_vars

\* the third failed login has locked the dialog and a click on Login has
\* been answered with the message box
C35_Witness ==
    /\ dialog.isLocked
    /\ dialog.box
    /\ calls = MAX_FAILED_ATTEMPTS
    /\ dialog.failedAttempts = MAX_FAILED_ATTEMPTS

\* C36: the lockout time is never negative; the dialog is unlocked only by
\* the timeout that is number LOCKOUT_DURATION (300) since the lock, and
\* then isLocked is false, failedAttempts is 0 and the timer is stopped;
\* with the timer firing, a locked dialog is eventually unlocked.
C36_UnlockAfterDuration ==
    /\ [](dialog.lockoutTime >= 0)
    /\ [][(dialog.isLocked /\ ~dialog'.isLocked)
             => /\ dialog'.ticks = LOCKOUT_DURATION
                /\ dialog'.failedAttempts = 0
                /\ ~dialog'.lockoutTimerActive]_vars
    /\ [][dialog.isLocked => dialog'.ticks \in {dialog.ticks, dialog.ticks + 1}]_vars
    /\ dialog.isLocked ~> (/\ ~dialog.isLocked
                           /\ dialog.failedAttempts = 0
                           /\ ~dialog.lockoutTimerActive)

\* a dialog locked by three failed logins has been unlocked by its timer
C36_Witness ==
    /\ ~dialog.isLocked
    /\ dialog.ticks = LOCKOUT_DURATION
    /\ dialog.failedAttempts = 0
    /\ ~dialog.lockoutTimerActive
    /\ calls = MAX_FAILED_ATTEMPTS

====
